---- MODULE Spec2Model ----
(***************************************************************************)
(* kernel-sync: per-core interrupt nesting (interrupt.rs), the busy-wait   *)
(* lock (spinlock.rs) and the suspend-based lock (mutex.rs).               *)
(*                                                                         *)
(* Every core (hardware thread) runs one call chain at a time.  pc[c] is   *)
(* the position of core c inside the function it is executing and stack[c] *)
(* the return positions of its callers, so that push_off/pop_off and       *)
(* SpinLock::lock are modelled once and called from every place the source *)
(* calls them.                                                             *)
(***************************************************************************)
EXTENDS Integers, Sequences, FiniteSets, TLC

\* ---------------------------------------------------------------- bounds
NCores == 2     \* cores (threads), each running one task in the Mutex tests
MaxInc == 2     \* increments of a core under SpinLock guards (loop_cnt)
MaxIter == 2    \* loop iterations of a task (loop_cnt)
MaxDepth == 3   \* nesting of direct push_off calls

Cores == 1..NCores

\* SpinLock instances: two user locks and the lock around Mutex::wakers.
UserLocks == {"x", "y"}
SpinLocks == UserLocks \cup {"wakers"}

VARIABLES
  \* interrupt.rs
  intr,           \* intr[c]: the hardware interrupt-enable bit of core c (intr_get)
  cpus,           \* CPUS[c]: [noff, interrupt_enable]
  borrowed,       \* borrowed[c]: the RefCell of CPUS[c] is mutably borrowed
  old,            \* push_off's local `old`
  should_enable,  \* pop_off's local `should_enable`
  \* control
  pc, stack, cur, \* position, return positions, the SpinLock being operated on
  \* spinlock.rs
  locked,         \* locked[l]: SpinLock::locked
  data,           \* the payload of user lock "x" (a counter)
  guards,         \* guards[c][l]: "none", or how core c got its live guard of l
  tmp,            \* the value read by `*guard += 1` before it is written back
  ninc,           \* increments completed by core c
  res,            \* the result of the last try_lock of core c
  \* mutex.rs
  state,          \* Mutex::state
  wakers,         \* Mutex::wakers: the list of registered wakers
  mdata,          \* Mutex::data (a counter)
  mguard,         \* mguard[c]: core c's task holds the MutexGuard
  waker,          \* unlock's local `waker` (0: None)
  woken,          \* woken[c]: the task of core c has been woken and not re-polled
  iter,           \* loop iterations completed by the task of core c
  dropped,        \* tasks whose pending MutexLockFuture was dropped
  \* history
  bal, base,      \* push_off minus pop_off calls of the current sequence; the
                  \* interrupt bit and depth at its start and its deepest nesting
  npend           \* polls that returned Pending in the task's current lock().await

ivars == <<intr, cpus, borrowed, old, should_enable>>
cvars == <<pc, stack, cur>>
svars == <<locked, data, guards, tmp, ninc, res>>
mvars == <<state, wakers, mdata, mguard, waker, woken, iter, dropped>>
hvars == <<bal, base, npend>>
vars == <<ivars, cvars, svars, mvars, hvars>>

\* ------------------------------------------------------------ interrupt.rs

\* Cpu::new (interrupt.rs:68-73)
Cpu_new == [noff |-> 0, interrupt_enable |-> FALSE]

\* call f, to continue at position r of the caller
Call(c, f, r) ==
  /\ pc' = [pc EXCEPT ![c] = f]
  /\ stack' = [stack EXCEPT ![c] = <<r>> \o @]

\* return to the caller; `cur` is dead once the outermost call has returned
Return(c) ==
  /\ pc' = [pc EXCEPT ![c] = Head(stack[c])]
  /\ stack' = [stack EXCEPT ![c] = Tail(@)]
  /\ cur' = [cur EXCEPT ![c] = IF Len(stack[c]) = 1 THEN "-" ELSE @]

\* panic!: the core stops for good
Panic(c) ==
  /\ pc' = [pc EXCEPT ![c] = "panicked"]
  /\ stack' = [stack EXCEPT ![c] = <<>>]
  /\ cur' = [cur EXCEPT ![c] = "-"]

\* push_off, line 105: let old = intr_get();
push_off_get(c) ==
  /\ pc[c] = "push_off"
  /\ old' = [old EXCEPT ![c] = intr[c]]
  /\ pc' = [pc EXCEPT ![c] = "push_off_off"]
  /\ UNCHANGED <<intr, cpus, borrowed, should_enable, stack, cur, svars, mvars, hvars>>

\* (mutant) the saved flag is overwritten at every depth
PushRec_always(rec, o) == [noff |-> rec.noff + 1, interrupt_enable |-> o]

\* (mutant) the flag saved is the interrupt state after intr_off()
PushRec_after(rec, o) ==
  [noff |-> rec.noff + 1,
   interrupt_enable |-> IF rec.noff = 0 THEN FALSE ELSE rec.interrupt_enable]

\* the record after push_off's lines 108-111
PushRec(rec, o) ==
  [noff |-> rec.noff + 1,
   interrupt_enable |-> IF rec.noff = 0 THEN o ELSE rec.interrupt_enable]

\* push_off, lines 106-112: intr_off(); then, with no interrupt possible on
\* this core, borrow the record, update it, release it and return.
\* borrow_mut on a record that is already borrowed panics.
push_off_off(c) ==
  /\ pc[c] = "push_off_off"
  /\ intr' = [intr EXCEPT ![c] = FALSE]
  /\ IF borrowed[c]
       THEN Panic(c) /\ UNCHANGED cpus
       ELSE cpus' = [cpus EXCEPT ![c] = PushRec(@, old[c])] /\ Return(c)
  /\ old' = [old EXCEPT ![c] = FALSE]
  /\ UNCHANGED <<borrowed, should_enable, svars, mvars, hvars>>

\* pop_off, line 115: let mut cpu = mycpu();
pop_off_borrow(c) ==
  /\ pc[c] = "pop_off"
  /\ IF borrowed[c]
       THEN Panic(c) /\ UNCHANGED borrowed
       ELSE /\ borrowed' = [borrowed EXCEPT ![c] = TRUE]
            /\ pc' = [pc EXCEPT ![c] = "pop_off_check"]
            /\ UNCHANGED <<stack, cur>>
  /\ UNCHANGED <<intr, cpus, old, should_enable, svars, mvars, hvars>>

\* (mutant) the depth is not checked
PopPanics_nodepth(rec, i) == i

\* pop_off, line 116: the condition of the panic
PopPanics(rec, i) == i \/ rec.noff < 1

\* pop_off, line 119
PopRec(rec) == [rec EXCEPT !.noff = @ - 1]

\* (mutant) the depth is not looked at
ShouldEnable_anydepth(rec) == rec.interrupt_enable

\* pop_off, line 120
ShouldEnable(rec) == rec.noff = 0 /\ rec.interrupt_enable

\* pop_off, lines 116-121: panic, or decrement, decide and release the record
pop_off_check(c) ==
  /\ pc[c] = "pop_off_check"
  /\ borrowed' = [borrowed EXCEPT ![c] = FALSE]
  /\ IF PopPanics(cpus[c], intr[c])
       THEN Panic(c) /\ UNCHANGED <<cpus, should_enable>>
       ELSE /\ cpus' = [cpus EXCEPT ![c] = PopRec(@)]
            /\ should_enable' = [should_enable EXCEPT ![c] = ShouldEnable(PopRec(cpus[c]))]
            /\ pc' = [pc EXCEPT ![c] = "pop_off_on"]
            /\ UNCHANGED <<stack, cur>>
  /\ UNCHANGED <<intr, old, svars, mvars, hvars>>

\* pop_off, lines 123-126: if should_enable { intr_on(); }
pop_off_on(c) ==
  /\ pc[c] = "pop_off_on"
  /\ intr' = [intr EXCEPT ![c] = IF should_enable[c] THEN TRUE ELSE @]
  /\ should_enable' = [should_enable EXCEPT ![c] = FALSE]
  /\ Return(c)
  /\ UNCHANGED <<cpus, borrowed, old, svars, mvars, hvars>>

\* the steps of push_off and pop_off, wherever they were called from
IntrStep(c) ==
  \/ push_off_get(c)
  \/ push_off_off(c)
  \/ pop_off_borrow(c)
  \/ pop_off_check(c)
  \/ pop_off_on(c)

\* ------------------------------------------- callers of push_off / pop_off

\* a core calls push_off() (history: the sequence it starts or continues)
CallPushOff(c) ==
  /\ pc[c] = "idle"
  /\ cpus[c].noff < MaxDepth
  /\ Call(c, "push_off", "idle")
  /\ bal' = [bal EXCEPT ![c] = @ + 1]
  /\ base' = [base EXCEPT ![c] =
                IF bal[c] = 0
                  THEN [intr |-> intr[c], noff |-> cpus[c].noff, peak |-> 1]
                  ELSE [@ EXCEPT !.peak = IF bal[c] + 1 > @ THEN bal[c] + 1 ELSE @]]
  /\ UNCHANGED <<ivars, cur, svars, mvars, npend>>

\* a core calls pop_off(), matched or not
CallPopOff(c) ==
  /\ pc[c] = "idle"
  /\ Call(c, "pop_off", "idle")
  /\ bal' = [bal EXCEPT ![c] = @ - 1]
  /\ UNCHANGED <<ivars, cur, svars, mvars, base, npend>>

\* ------------------------------------------------- an interrupt handler
\* (interrupt.rs:122: "intr_on() may lead to an immediate interrupt")

\* an interrupt is taken wherever the core is while its interrupts are
\* enabled: the hardware disables them and the interrupted context (its
\* position and push_off's local) is saved until the handler returns
interrupt(c) ==
  /\ intr[c]
  /\ pc[c] # "panicked"
  /\ intr' = [intr EXCEPT ![c] = FALSE]
  /\ stack' = [stack EXCEPT ![c] = <<pc[c], IF old[c] THEN "old" ELSE "-">> \o @]
  /\ old' = [old EXCEPT ![c] = FALSE]
  /\ pc' = [pc EXCEPT ![c] = "handler"]
  /\ UNCHANGED <<cpus, borrowed, should_enable, cur, svars, mvars, hvars>>

\* the handler calls push_off() ...
handler_push(c) ==
  /\ pc[c] = "handler"
  /\ Call(c, "push_off", "handler_pop")
  /\ UNCHANGED <<ivars, cur, svars, mvars, hvars>>

\* ... and the matching pop_off()
handler_pop(c) ==
  /\ pc[c] = "handler_pop"
  /\ Call(c, "pop_off", "handler_ret")
  /\ UNCHANGED <<ivars, cur, svars, mvars, hvars>>

\* the handler returns: the interrupted context goes on, interrupts enabled
\* as they were when it was interrupted
handler_ret(c) ==
  /\ pc[c] = "handler_ret"
  /\ intr' = [intr EXCEPT ![c] = TRUE]
  /\ pc' = [pc EXCEPT ![c] = stack[c][1]]
  /\ old' = [old EXCEPT ![c] = stack[c][2] = "old"]
  /\ stack' = [stack EXCEPT ![c] = Tail(Tail(@))]
  /\ UNCHANGED <<cpus, borrowed, should_enable, cur, svars, mvars, hvars>>

HandlerStep(c) ==
  \/ interrupt(c)
  \/ handler_push(c)
  \/ handler_pop(c)
  \/ handler_ret(c)

\* ------------------------------------------------------------- spinlock.rs

\* crate::enable_intr(), called by SpinLock::lock (spinlock.rs:56): the
\* interrupt masking of acquisition, push_off()
enable_intr(c, r) == Call(c, "push_off", r)

\* crate::disable_intr(), called by SpinLockGuard::drop (spinlock.rs:128): the
\* unmasking of release, pop_off(); drop returns when it returns
disable_intr(c) == pc' = [pc EXCEPT ![c] = "pop_off"] /\ UNCHANGED stack

\* SpinLock::lock, lines 55-57
lock_enter(c) ==
  /\ pc[c] = "lock"
  /\ enable_intr(c, "lock_cas")
  /\ UNCHANGED <<ivars, cur, svars, mvars, hvars>>

\* (mutant) an exchange that does not compare
CasAcquire_blind(b) == [flag |-> TRUE, ok |-> TRUE]

\* (mutant) a failed exchange writes the flag
CasAcquire_swap(b) == [flag |-> ~b, ok |-> ~b]

\* the outcomes of compare_exchange(false, true) on flag value b: the new
\* value and whether the exchange succeeded
CasAcquire(b) == IF b THEN [flag |-> TRUE, ok |-> FALSE] ELSE [flag |-> TRUE, ok |-> TRUE]

\* compare_exchange_weak may also fail on an unlocked flag, changing nothing
CasWeak(b) == {CasAcquire(b), [flag |-> b, ok |-> FALSE]}

\* SpinLock::lock, lines 58-62 and 69-72: one compare_exchange_weak; the guard
\* is returned when it succeeds
lock_cas(c) ==
  /\ pc[c] = "lock_cas"
  /\ \E r \in CasWeak(locked[cur[c]]) :
       /\ locked' = [locked EXCEPT ![cur[c]] = r.flag]
       /\ IF r.ok
            THEN /\ guards' = [guards EXCEPT ![c][cur[c]] = "lock"]
                 /\ Return(c)
            ELSE /\ pc' = [pc EXCEPT ![c] = "lock_spin"]
                 /\ UNCHANGED <<guards, stack, cur>>
  /\ UNCHANGED <<ivars, data, tmp, ninc, res, mvars, hvars>>

\* SpinLock::lock, lines 64-66: while self.is_locked() {} ends when the flag
\* is read as false
lock_spin(c) ==
  /\ pc[c] = "lock_spin"
  /\ ~locked[cur[c]]
  /\ pc' = [pc EXCEPT ![c] = "lock_cas"]
  /\ UNCHANGED <<ivars, stack, cur, svars, mvars, hvars>>

\* SpinLock::try_lock, lines 81-94: one compare_exchange, Some(guard) or None
try_lock(c) ==
  /\ pc[c] = "try_lock"
  /\ LET r == CasAcquire(locked[cur[c]]) IN
       /\ locked' = [locked EXCEPT ![cur[c]] = r.flag]
       /\ guards' = [guards EXCEPT ![c][cur[c]] = IF r.ok THEN "try" ELSE @]
       /\ res' = [res EXCEPT ![c] = IF r.ok THEN "Some" ELSE "None"]
  /\ Return(c)
  /\ UNCHANGED <<ivars, data, tmp, ninc, mvars, hvars>>

\* (mutant) the flag is left set
guard_drop_nostore(c) ==
  /\ pc[c] = "guard_drop"
  /\ guards' = [guards EXCEPT ![c][cur[c]] = "none"]
  /\ disable_intr(c)
  /\ UNCHANGED <<ivars, cur, locked, data, tmp, ninc, res, mvars, hvars>>

\* SpinLockGuard::drop, lines 125-130: store false, then disable_intr()
guard_drop(c) ==
  /\ pc[c] = "guard_drop"
  /\ locked' = [locked EXCEPT ![cur[c]] = FALSE]
  /\ guards' = [guards EXCEPT ![c][cur[c]] = "none"]
  /\ disable_intr(c)
  /\ UNCHANGED <<ivars, cur, data, tmp, ninc, res, mvars, hvars>>

\* the steps of SpinLock::lock and of the guard's drop, wherever they were
\* called from
LockStep(c) ==
  \/ lock_enter(c)
  \/ lock_cas(c)
  \/ lock_spin(c)
  \/ guard_drop(c)

\* the steps of all the SpinLock functions
SpinStep(c) == LockStep(c) \/ try_lock(c)

\* ------------------------------------------------ users of a SpinLock
\* (tests::basic_test, tests::try_lock_test: any order of the operations)

\* let guard = l.lock(); no caller asks for a lock it is holding
UseLock(c, l) ==
  /\ pc[c] = "idle"
  /\ guards[c][l] = "none"
  /\ cur' = [cur EXCEPT ![c] = l]
  /\ res' = [res EXCEPT ![c] = "-"]
  /\ Call(c, "lock", "idle")
  /\ UNCHANGED <<ivars, locked, data, guards, tmp, ninc, mvars, hvars>>

\* let r = l.try_lock();
UseTryLock(c, l) ==
  /\ pc[c] = "idle"
  /\ cur' = [cur EXCEPT ![c] = l]
  /\ Call(c, "try_lock", "idle")
  /\ UNCHANGED <<ivars, svars, mvars, hvars>>

\* drop(guard): the end of the guard's scope, on any exit path
UseDrop(c, l) ==
  /\ pc[c] = "idle"
  /\ guards[c][l] # "none"
  /\ cur' = [cur EXCEPT ![c] = l]
  /\ res' = [res EXCEPT ![c] = "-"]
  /\ Call(c, "guard_drop", "idle")
  /\ UNCHANGED <<ivars, locked, data, guards, tmp, ninc, mvars, hvars>>

\* *guard += 1 through a guard of "x", the read
IncRead(c) ==
  /\ pc[c] = "idle"
  /\ guards[c]["x"] # "none"
  /\ ninc[c] < MaxInc
  /\ tmp' = [tmp EXCEPT ![c] = data]
  /\ res' = [res EXCEPT ![c] = "-"]
  /\ pc' = [pc EXCEPT ![c] = "inc_write"]
  /\ UNCHANGED <<ivars, stack, cur, locked, data, guards, ninc, mvars, hvars>>

\* *guard += 1, the write
IncWrite(c) ==
  /\ pc[c] = "inc_write"
  /\ data' = tmp[c] + 1
  /\ ninc' = [ninc EXCEPT ![c] = @ + 1]
  /\ pc' = [pc EXCEPT ![c] = "idle"]
  /\ tmp' = [tmp EXCEPT ![c] = 0]
  /\ UNCHANGED <<ivars, stack, cur, locked, guards, res, mvars, hvars>>

\* ---------------------------------------------------------------- mutex.rs
\* The task of core c is polled on core c; its waker is the number c.

\* (mutant) the previous value is not looked at
FetchOr_blind(b) == [flag |-> TRUE, ok |-> TRUE]

\* fetch_or(true): the new value of the flag and whether it was false before
FetchOr(b) == [flag |-> TRUE, ok |-> ~b]

\* Mutex::try_lock, lines 73-79, called by the task itself
Mutex_try_lock(c) ==
  /\ pc[c] = "task"
  /\ iter[c] < MaxIter
  /\ LET r == FetchOr(state) IN
       /\ state' = r.flag
       /\ mguard' = [mguard EXCEPT ![c] = r.ok]
       /\ res' = [res EXCEPT ![c] = IF r.ok THEN "Some" ELSE "None"]
       /\ pc' = [pc EXCEPT ![c] = IF r.ok THEN "crit" ELSE @]
  /\ UNCHANGED <<ivars, stack, cur, locked, data, guards, tmp, ninc,
                 wakers, mdata, waker, woken, iter, dropped, hvars>>

\* Mutex::lock, lines 68-70, and the first poll of x.lock().await
Mutex_lock(c) ==
  /\ pc[c] = "task"
  /\ iter[c] < MaxIter
  /\ pc' = [pc EXCEPT ![c] = "poll"]
  /\ res' = [res EXCEPT ![c] = "-"]
  /\ UNCHANGED <<ivars, stack, cur, locked, data, guards, tmp, ninc, mvars, hvars>>

\* MutexLockFuture::poll, lines 98-100: the first try_lock
poll_try(c) ==
  /\ pc[c] = "poll"
  /\ LET r == FetchOr(state) IN
       /\ state' = r.flag
       /\ mguard' = [mguard EXCEPT ![c] = r.ok]
       /\ pc' = [pc EXCEPT ![c] = IF r.ok THEN "crit" ELSE "register"]
       /\ npend' = [npend EXCEPT ![c] = IF r.ok THEN 0 ELSE @]
  /\ UNCHANGED <<ivars, stack, cur, svars, wakers, mdata, waker, woken, iter, dropped, bal, base>>

\* poll, lines 101-102, and Mutex::register, line 90: self.wakers.lock()
register_lock(c) ==
  /\ pc[c] = "register"
  /\ cur' = [cur EXCEPT ![c] = "wakers"]
  /\ Call(c, "lock", "register_push")
  /\ UNCHANGED <<ivars, svars, mvars, hvars>>

\* (mutant) the waker is not put into the list
register_push_skip(c) ==
  /\ pc[c] = "register_push"
  /\ cur' = [cur EXCEPT ![c] = "wakers"]
  /\ Call(c, "guard_drop", "poll_retry")
  /\ UNCHANGED <<ivars, svars, mvars, hvars>>

\* (mutant) poll returns Pending right after the registration
register_push_last(c) ==
  /\ pc[c] = "register_push"
  /\ wakers' = Append(wakers, c)
  /\ cur' = [cur EXCEPT ![c] = "wakers"]
  /\ Call(c, "guard_drop", "pending")
  /\ UNCHANGED <<ivars, svars, state, mdata, mguard, waker, woken, iter, dropped, hvars>>

\* Mutex::register, line 90: push_back(waker), and the guard's scope ends
register_push(c) ==
  /\ pc[c] = "register_push"
  /\ wakers' = Append(wakers, c)
  /\ cur' = [cur EXCEPT ![c] = "wakers"]
  /\ Call(c, "guard_drop", "poll_retry")
  /\ UNCHANGED <<ivars, svars, state, mdata, mguard, waker, woken, iter, dropped, hvars>>

\* poll, lines 103-106: the second try_lock, Ready or Pending
poll_retry(c) ==
  /\ pc[c] = "poll_retry"
  /\ LET r == FetchOr(state) IN
       /\ state' = r.flag
       /\ mguard' = [mguard EXCEPT ![c] = r.ok]
       /\ pc' = [pc EXCEPT ![c] = IF r.ok THEN "crit" ELSE "pending"]
       /\ npend' = [npend EXCEPT ![c] = IF r.ok THEN 0 ELSE @ + 1]
  /\ UNCHANGED <<ivars, stack, cur, svars, wakers, mdata, waker, woken, iter, dropped, bal, base>>

\* the executor polls a task again once its waker was woken
repoll(c) ==
  /\ pc[c] = "pending"
  /\ woken[c]
  /\ woken' = [woken EXCEPT ![c] = FALSE]
  /\ pc' = [pc EXCEPT ![c] = "poll"]
  /\ UNCHANGED <<ivars, stack, cur, svars, state, wakers, mdata, mguard, waker, iter, dropped, hvars>>

\* tests::handle, line 142: *guard += 1, the read
crit_read(c) ==
  /\ pc[c] = "crit"
  /\ tmp' = [tmp EXCEPT ![c] = mdata]
  /\ res' = [res EXCEPT ![c] = "-"]
  /\ pc' = [pc EXCEPT ![c] = "crit_write"]
  /\ UNCHANGED <<ivars, stack, cur, locked, data, guards, ninc, mvars, hvars>>

\* *guard += 1, the write; the guard's scope ends
crit_write(c) ==
  /\ pc[c] = "crit_write"
  /\ mdata' = tmp[c] + 1
  /\ tmp' = [tmp EXCEPT ![c] = 0]
  /\ ninc' = [ninc EXCEPT ![c] = @ + 1]
  /\ pc' = [pc EXCEPT ![c] = "unlock"]
  /\ UNCHANGED <<ivars, stack, cur, locked, data, guards, res,
                 state, wakers, mguard, waker, woken, iter, dropped, hvars>>

\* the critical section is left early (a return before the increment); the
\* guard's scope ends on this path too
crit_return(c) ==
  /\ pc[c] = "crit"
  /\ res' = [res EXCEPT ![c] = "-"]
  /\ pc' = [pc EXCEPT ![c] = "unlock"]
  /\ UNCHANGED <<ivars, stack, cur, locked, data, guards, tmp, ninc, mvars, hvars>>

\* MutexGuard::drop, line 129, and Mutex::unlock, lines 82-83: store false,
\* then self.wakers.lock()
unlock_store(c) ==
  /\ pc[c] = "unlock"
  /\ state' = FALSE
  /\ mguard' = [mguard EXCEPT ![c] = FALSE]
  /\ cur' = [cur EXCEPT ![c] = "wakers"]
  /\ Call(c, "lock", "unlock_pop")
  /\ UNCHANGED <<ivars, svars, wakers, mdata, waker, woken, iter, dropped, hvars>>

\* (mutant) the newest waker is taken
pop_front_newest(q) ==
  IF q = <<>> THEN [waker |-> 0, rest |-> <<>>]
              ELSE [waker |-> q[Len(q)], rest |-> SubSeq(q, 1, Len(q) - 1)]

\* LinkedList::pop_front (mutex.rs:83): None (0) of an empty list, else the
\* first element, which leaves the list
pop_front(q) ==
  IF q = <<>> THEN [waker |-> 0, rest |-> <<>>]
              ELSE [waker |-> Head(q), rest |-> Tail(q)]

\* (mutant) the guard of the wakers lock lives until unlock returns
unlock_pop_hold(c) ==
  /\ pc[c] = "unlock_pop"
  /\ waker' = [waker EXCEPT ![c] = pop_front(wakers).waker]
  /\ wakers' = pop_front(wakers).rest
  /\ cur' = [cur EXCEPT ![c] = "-"]
  /\ pc' = [pc EXCEPT ![c] = "unlock_wake"]
  /\ UNCHANGED <<ivars, stack, svars, state, mdata, mguard, woken, iter, dropped, hvars>>

\* Mutex::unlock, line 83: pop_front(), and the guard's scope ends
unlock_pop(c) ==
  /\ pc[c] = "unlock_pop"
  /\ waker' = [waker EXCEPT ![c] = pop_front(wakers).waker]
  /\ wakers' = pop_front(wakers).rest
  /\ cur' = [cur EXCEPT ![c] = "wakers"]
  /\ Call(c, "guard_drop", "unlock_wake")
  /\ UNCHANGED <<ivars, svars, state, mdata, mguard, woken, iter, dropped, hvars>>

\* (mutant) the Mutex is handed to the task that is woken: the flag is set
\* again on its behalf
unlock_wake_handoff(c) ==
  /\ pc[c] = "unlock_wake"
  /\ woken' = [w \in Cores |-> IF w = waker[c] THEN TRUE ELSE woken[w]]
  /\ state' = IF waker[c] # 0 THEN TRUE ELSE state
  /\ waker' = [waker EXCEPT ![c] = 0]
  /\ iter' = [iter EXCEPT ![c] = @ + 1]
  /\ pc' = [pc EXCEPT ![c] = "task"]
  /\ UNCHANGED <<ivars, stack, cur, svars, wakers, mdata, mguard, dropped, hvars>>

\* Mutex::unlock, lines 84-86: wake the popped waker, if any; the loop
\* iteration of tests::handle ends
unlock_wake(c) ==
  /\ pc[c] = "unlock_wake"
  /\ woken' = [w \in Cores |-> IF w = waker[c] THEN TRUE ELSE woken[w]]
  /\ waker' = [waker EXCEPT ![c] = 0]
  /\ iter' = [iter EXCEPT ![c] = @ + 1]
  /\ pc' = [pc EXCEPT ![c] = "task"]
  /\ UNCHANGED <<ivars, stack, cur, svars, state, wakers, mdata, mguard, dropped, hvars>>

\* a pending MutexLockFuture is dropped: the type has no Drop (lines 43-47),
\* so nothing is done; the task gives up
future_drop(c) ==
  /\ pc[c] = "pending"
  /\ dropped' = dropped \cup {c}
  /\ iter' = [iter EXCEPT ![c] = MaxIter]
  /\ woken' = [woken EXCEPT ![c] = FALSE]
  /\ pc' = [pc EXCEPT ![c] = "task"]
  /\ npend' = [npend EXCEPT ![c] = 0]
  /\ UNCHANGED <<ivars, stack, cur, svars, state, wakers, mdata, mguard, waker, bal, base>>

\* tests::handle returns after its loop: the thread goes on with other code
task_end(c) ==
  /\ pc[c] = "task"
  /\ iter[c] = MaxIter
  /\ pc' = [pc EXCEPT ![c] = "idle"]
  /\ UNCHANGED <<ivars, stack, cur, svars, mvars, hvars>>

\* the steps of the Mutex functions and of the task that uses them
MutexStep(c) ==
  \/ Mutex_try_lock(c)
  \/ Mutex_lock(c)
  \/ poll_try(c)
  \/ register_lock(c)
  \/ register_push(c)
  \/ poll_retry(c)
  \/ repoll(c)
  \/ crit_read(c)
  \/ crit_write(c)
  \/ crit_return(c)
  \/ unlock_store(c)
  \/ unlock_pop(c)
  \/ unlock_wake(c)

\* ------------------------------------------------------------ initial state

InitIntr ==
  /\ intr \in [Cores -> BOOLEAN]
  /\ cpus = [c \in Cores |-> Cpu_new]
  /\ borrowed = [c \in Cores |-> FALSE]
  /\ old = [c \in Cores |-> FALSE]
  /\ should_enable = [c \in Cores |-> FALSE]

InitSpin ==
  /\ locked = [l \in SpinLocks |-> FALSE]
  /\ data = 0
  /\ guards = [c \in Cores |-> [l \in SpinLocks |-> "none"]]
  /\ tmp = [c \in Cores |-> 0]
  /\ ninc = [c \in Cores |-> 0]
  /\ res = [c \in Cores |-> "-"]

InitMutex ==
  /\ state = FALSE
  /\ wakers = <<>>
  /\ mdata = 0
  /\ mguard = [c \in Cores |-> FALSE]
  /\ waker = [c \in Cores |-> 0]
  /\ woken = [c \in Cores |-> FALSE]
  /\ iter = [c \in Cores |-> 0]
  /\ dropped = {}

InitHist ==
  /\ bal = [c \in Cores |-> 0]
  /\ base = [c \in Cores |-> [intr |-> intr[c], noff |-> 0, peak |-> 0]]
  /\ npend = [c \in Cores |-> 0]

InitData ==
  /\ InitIntr /\ InitSpin /\ InitMutex /\ InitHist
  /\ stack = [c \in Cores |-> <<>>]
  /\ cur = [c \in Cores |-> "-"]

\* every core is in code that uses the crate
Init == InitData /\ pc = [c \in Cores |-> "idle"]

\* every core runs a task of tests::mutex_test
InitTasks == InitData /\ pc = [c \in Cores |-> "task"]

\* ------------------------------------------------ the interrupt tracker alone

NextIntr == \E c \in Cores : CallPushOff(c) \/ CallPopOff(c) \/ IntrStep(c)

SpecIntr == Init /\ [][NextIntr]_vars

\* ... with interrupts taken wherever they are enabled
NextHandler == NextIntr \/ \E c \in Cores : HandlerStep(c)

SpecHandler == Init /\ [][NextHandler]_vars

\* ------------------------------------------------ cores using SpinLocks

\* cores sharing the one lock "x" (tests::basic_test, tests::try_lock_test)
NextSpin ==
  \E c \in Cores :
    \/ UseLock(c, "x")
    \/ UseTryLock(c, "x")
    \/ UseDrop(c, "x")
    \/ IncRead(c)
    \/ IncWrite(c)
    \/ SpinStep(c)
    \/ IntrStep(c)

Spec == Init /\ [][NextSpin]_vars

\* cores taking the locks "x" and "y" in any nesting
NextNest ==
  \E c \in Cores :
    \/ \E l \in UserLocks : UseLock(c, l) \/ UseTryLock(c, l) \/ UseDrop(c, l)
    \/ SpinStep(c)
    \/ IntrStep(c)

SpecNest == Init /\ [][NextNest]_vars

\* ------------------------------------------------ tasks sharing a Mutex

\* (the Mutex takes its wakers lock with lock() only)
TaskStep(c) == MutexStep(c) \/ LockStep(c) \/ IntrStep(c)

NextMutex == \E c \in Cores : TaskStep(c)

SpecMutex == InitTasks /\ [][NextMutex]_vars

\* some cores use the lock "x", the others run tasks sharing the Mutex
InitGuards == InitData /\ pc \in [Cores -> {"idle", "task"}]

SpecGuards == InitGuards /\ [][NextSpin \/ NextMutex]_vars

\* every core keeps executing, the executor polls every woken task, and a
\* compare_exchange_weak that finds the flag false again and again does not
\* fail for ever
FairMutex ==
  /\ SpecMutex
  /\ \A c \in Cores :
       /\ WF_vars(TaskStep(c))
       /\ SF_vars(lock_cas(c) /\ pc'[c] # "lock_spin")

\* ... and a task may drop a pending MutexLockFuture
NextCancel == NextMutex \/ \E c \in Cores : future_drop(c)

SpecCancel == InitTasks /\ [][NextCancel]_vars

\* tasks sharing the Mutex, each thread using the lock "x" once its task is over
NextTry ==
  \E c \in Cores :
    \/ TaskStep(c)
    \/ task_end(c)
    \/ UseLock(c, "x")
    \/ UseTryLock(c, "x")
    \/ UseDrop(c, "x")
    \/ try_lock(c)

SpecTry == InitTasks /\ [][NextTry]_vars

\* ================================================================ claims

\* C1: under any interleaving of lock(), try_lock() and guard drops, at most
\* one core holds a guard of a SpinLock and a guard exists only while `locked`
\* is true; when every core has completed MaxInc increments of the payload
\* under a guard, the payload is NCores * MaxInc.
C1_SpinMutualExclusion ==
  /\ \A l \in SpinLocks :
       /\ Cardinality({c \in Cores : guards[c][l] # "none"}) <= 1
       /\ (\E c \in Cores : guards[c][l] # "none") => locked[l]
  /\ (\A c \in Cores : pc[c] = "idle" /\ ninc[c] = MaxInc) => data = NCores * MaxInc

\* a core makes the last increment under a guard from lock() while another
\* core spins in lock()
C1_Witness ==
  \E c, d \in Cores :
    /\ c # d
    /\ guards[c]["x"] = "lock" /\ pc[c] = "inc_write" /\ tmp[c] = NCores * MaxInc - 1
    /\ pc[d] = "lock_spin"

\* C2: at most one MutexGuard exists at a time, and only while `state` is
\* true; when every task has ended after MaxIter increments under a guard, the
\* payload is NCores * MaxIter.
C2_MutexMutualExclusion ==
  /\ Cardinality({c \in Cores : mguard[c]}) <= 1
  /\ (\E c \in Cores : mguard[c]) => state
  /\ (\A c \in Cores : pc[c] = "task" /\ iter[c] = MaxIter /\ ninc[c] = MaxIter)
       => mdata = NCores * MaxIter

\* all tasks have ended with every increment made, and some poll had to
\* register (its waker is still in the list)
C2_Witness ==
  /\ \A c \in Cores : pc[c] = "task" /\ iter[c] = MaxIter /\ ninc[c] = MaxIter
  /\ mdata = NCores * MaxIter
  /\ wakers # <<>>

\* C3: no task stays suspended for ever, its waker not woken, while the Mutex
\* is free (every core keeps executing and every woken task is polled again).
C3_NoLostWakeup ==
  \A c \in Cores : []<>~(pc[c] = "pending" /\ ~woken[c] /\ ~state)

\* C4: when a core is back at the end of a matched sequence of push_off and
\* pop_off calls, its interrupt bit and its noff are what they were before the
\* first push_off.
C4_MatchedRestores ==
  \A c \in Cores :
    (pc[c] = "idle" /\ bal[c] = 0) =>
      /\ intr[c] = base[c].intr
      /\ cpus[c].noff = base[c].noff

\* a sequence that nested at least two deep has ended with interrupts back on
C4_Witness ==
  \E c \in Cores :
    /\ pc[c] = "idle" /\ bal[c] = 0
    /\ base[c].peak >= 2 /\ base[c].intr /\ intr[c]

\* C5: pop_off panics exactly when noff < 1 or interrupts are enabled, and
\* then changes neither the record nor the interrupt bit; otherwise it
\* decrements noff and does not panic at any of its steps.
C5_PopOffFatal ==
  [][\A c \in Cores :
       /\ (pc[c] = "pop_off_check" /\ pc'[c] # pc[c]) =>
            IF cpus[c].noff < 1 \/ intr[c]
              THEN pc'[c] = "panicked" /\ cpus'[c] = cpus[c] /\ intr'[c] = intr[c]
              ELSE pc'[c] = "pop_off_on" /\ cpus'[c].noff = cpus[c].noff - 1
       /\ (pc[c] \in {"pop_off", "pop_off_on"}) => pc'[c] # "panicked"]_vars

\* one core has panicked in a pop_off with interrupts enabled, another in an
\* unmatched pop_off with interrupts disabled, the records untouched
C5_Witness ==
  \E c, d \in Cores :
    /\ pc[c] = "panicked" /\ intr[c] /\ cpus[c].noff = 0
    /\ pc[d] = "panicked" /\ ~intr[d] /\ cpus[d].noff = 0

\* C6: try_lock returns Some exactly when its compare_exchange finds the flag
\* false and None when it finds it true, and no step of a core that calls
\* try_lock and drops the guards it got ends in a panic.
C6_TryLockSequence ==
  [][\A c \in Cores :
       /\ (pc[c] = "try_lock" /\ pc'[c] # pc[c]) =>
            res'[c] = IF locked[cur[c]] THEN "None" ELSE "Some"
       /\ pc'[c] # "panicked"]_vars

\* C7: a try_lock that returns Some leaves the interrupts of its core disabled
\* and noff one higher than it found it.
C7_TryLockMasks ==
  [][\A c \in Cores :
       (pc[c] = "try_lock" /\ pc'[c] # pc[c] /\ res'[c] = "Some") =>
         /\ ~intr'[c]
         /\ cpus'[c].noff = cpus[c].noff + 1]_vars

\* C8: while a core holds a SpinLock guard, from lock() or from try_lock(),
\* the interrupts of that core are disabled.
C8_MaskedWhileHeld ==
  \A c \in Cores : \A l \in SpinLocks : guards[c][l] # "none" => ~intr[c]

\* C9: a guard ends only in a release that stores false into the flag of its
\* lock, for a SpinLock guard going on to pop_off; and no guard outlives the
\* scope it was created in (the statement that took the wakers lock, the
\* loop iteration of the task).
C9_DropReleases ==
  /\ [](\A c \in Cores :
          /\ pc[c] \in {"task", "poll", "register", "pending"} => ~mguard[c]
          /\ pc[c] \in {"task", "poll", "register", "poll_retry", "pending", "crit",
                        "crit_write", "unlock", "unlock_wake"}
               => guards[c]["wakers"] = "none")
  /\ [][\A c \in Cores :
          /\ (mguard[c] /\ ~mguard'[c]) => ~state'
          /\ \A l \in SpinLocks :
               (guards[c][l] # "none" /\ guards'[c][l] = "none") =>
                 ~locked'[l] /\ pc'[c] = "pop_off"]_vars

\* the guard of a try_lock was dropped with a panic in pop_off and a task has
\* dropped its MutexGuard on the early return; both locks are free again
C9_Witness ==
  \E c, d \in Cores :
    /\ pc[c] = "panicked" /\ guards[c]["x"] = "none" /\ ~locked["x"]
    /\ pc[d] = "task" /\ iter[d] = 1 /\ ninc[d] = 0 /\ ~state /\ ~locked["wakers"]

\* C10: no release pops (to wake it) the waker of a MutexLockFuture that was
\* dropped while pending.
C10_NoAbandonedWake ==
  \A c \in Cores : waker[c] \notin dropped

\* C11: every Mutex::unlock first stores false into the flag, leaving the
\* list alone, and then removes at most one waker, the head of the list (the
\* oldest registration), and wakes exactly that one; with an empty list it
\* wakes nobody; the list changes in no other way than by that removal and
\* by a registration at its end, so the other wakers keep their order.
C11_UnlockWakesOldest ==
  [][/\ \A c \in Cores :
          /\ (pc[c] = "unlock" /\ pc'[c] # pc[c]) => ~state' /\ wakers' = wakers
          /\ (pc[c] = "unlock_pop" /\ pc'[c] # pc[c]) =>
               /\ ~mguard[c]
               /\ IF wakers = <<>>
                    THEN waker'[c] = 0 /\ wakers' = <<>>
                    ELSE waker'[c] = Head(wakers) /\ wakers' = Tail(wakers)
          /\ (pc[c] = "unlock_wake" /\ pc'[c] # pc[c]) =>
               \A w \in Cores : woken'[w] = (woken[w] \/ w = waker[c])
     /\ wakers' # wakers =>
          \/ \E c \in Cores : pc[c] = "unlock_pop" /\ wakers' = Tail(wakers)
          \/ \E c \in Cores : pc[c] = "register_push" /\ wakers' = Append(wakers, c)
     /\ \A w \in Cores : (woken'[w] /\ ~woken[w]) =>
          \E c \in Cores : pc[c] = "unlock_wake" /\ waker[c] = w]_vars

\* an unlock has popped the older of two different wakers and is about to
\* wake it, the newer one staying in the list
C11_Witness ==
  \E c \in Cores :
    /\ pc[c] = "unlock_wake"
    /\ waker[c] # 0
    /\ wakers # <<>> /\ Head(wakers) # waker[c]

\* C12: a try_lock that finds the flag true, on a SpinLock or on the Mutex,
\* returns None to its caller (no panic, no waiting) and changes neither a
\* flag, nor a payload, nor the list of wakers, nor a guard, nor the record
\* or the interrupt bit of any core.
C12_FailedTryLockNoEffect ==
  [][\A c \in Cores :
       /\ (pc[c] = "try_lock" /\ locked[cur[c]] /\ pc'[c] # pc[c]) =>
            /\ res'[c] = "None" /\ pc'[c] = Head(stack[c])
            /\ UNCHANGED <<locked, data, guards, state, mdata, mguard, wakers, cpus, intr>>
       /\ (pc[c] = "task" /\ state) => pc'[c] # "crit"
       /\ (pc[c] = "task" /\ pc'[c] = "task" /\ res'[c] # res[c]) =>
            /\ res'[c] = "None" /\ state
            /\ UNCHANGED <<locked, data, guards, state, mdata, mguard, wakers, cpus, intr>>]_vars

\* a thread whose task is over has got None from try_lock on the SpinLock it
\* holds, and a task has got None from Mutex::try_lock
C12_Witness ==
  \E c, d \in Cores :
    /\ pc[c] = "idle" /\ res[c] = "None" /\ guards[c]["x"] = "lock"
    /\ pc[d] = "task" /\ res[d] = "None"

\* C13: whenever noff of a core is above 0 its interrupts are disabled; a
\* pop_off that leaves noff above 0 does not enable them, and the pop_off that
\* brings noff to 0 enables them exactly when interrupt_enable is true; the
\* steps of pop_off before its last one leave the interrupt bit alone.
C13_NestedMasking ==
  /\ [](\A c \in Cores : cpus[c].noff > 0 => ~intr[c])
  /\ [][\A c \in Cores :
          /\ (pc[c] \in {"pop_off", "pop_off_check"}) => intr'[c] = intr[c]
          /\ (pc[c] = "pop_off_on" /\ pc'[c] # pc[c]) =>
               IF cpus[c].noff > 0
                 THEN ~intr'[c]
                 ELSE intr'[c] = cpus[c].interrupt_enable]_vars

\* one core, which had interrupts enabled, is back from the inner pop_off of
\* two nested push_off with interrupts still disabled; another is back from
\* its outermost pop_off with interrupts enabled again
C13_Witness ==
  \E c, d \in Cores :
    /\ c # d
    /\ pc[c] = "idle" /\ bal[c] = 1 /\ base[c].peak = 2
    /\ cpus[c].noff = 1 /\ cpus[c].interrupt_enable /\ ~intr[c]
    /\ pc[d] = "idle" /\ bal[d] = 0 /\ base[d].peak >= 1
    /\ cpus[d].noff = 0 /\ intr[d]

\* C14: pop_off enables interrupts only in its last step, the decrement done
\* and the borrow of the record released; and with a handler that is entered
\* wherever interrupts are enabled and calls push_off and pop_off, no core
\* comes to borrow its record (mycpu) while it is borrowed.
C14_NoDoubleBorrow ==
  [][\A c \in Cores :
       /\ (intr'[c] /\ ~intr[c] /\ pc[c] # "handler_ret") =>
            pc[c] = "pop_off_on" /\ ~borrowed[c] /\ cpus'[c] = cpus[c]
       /\ (borrowed[c] /\ pc[c] \in {"push_off_off", "pop_off"}) => pc'[c] = pc[c]]_vars

\* C15: interrupt_enable of a core's record changes only in a push_off of
\* that core that finds noff = 0, which writes the interrupt bit it read
\* (into `old`) before it disabled interrupts; a push_off at noff >= 1 and a
\* pop_off leave it as it is, and the steps of one core leave the records of
\* the other cores as they are.
C15_SavedFlagFrame ==
  [][\A c \in Cores :
       /\ (pc[c] = "push_off" /\ pc'[c] # pc[c]) => old'[c] = intr[c] /\ intr'[c] = intr[c]
       /\ (pc[c] = "push_off_off" /\ pc'[c] \notin {pc[c], "panicked"}) =>
            cpus'[c].interrupt_enable =
              IF cpus[c].noff = 0 THEN old[c] ELSE cpus[c].interrupt_enable
       /\ (cpus'[c].interrupt_enable # cpus[c].interrupt_enable) =>
            pc[c] = "push_off_off" /\ cpus[c].noff = 0
       /\ (cpus'[c] # cpus[c]) =>
            /\ pc[c] \in {"push_off_off", "pop_off_check"} /\ pc'[c] # pc[c]
            /\ \A d \in Cores \ {c} : cpus'[d] = cpus[d]]_vars

\* a core that had interrupts enabled is back from a pop_off after three
\* nested push_off, the flag saved by the first one still set; another core
\* has saved a cleared flag
C15_Witness ==
  \E c, d \in Cores :
    /\ pc[c] = "idle" /\ base[c].peak = 3 /\ bal[c] = 2
    /\ cpus[c].noff = 2 /\ cpus[c].interrupt_enable
    /\ pc[d] = "idle" /\ cpus[d].noff >= 1 /\ ~cpus[d].interrupt_enable

\* the wakers that are in the list
Registered == {wakers[i] : i \in 1..Len(wakers)}

\* C16: in a poll, a first try_lock that fails goes on to the registration,
\* which appends the task's waker and is followed by the second try_lock;
\* poll returns Pending only from a second try_lock that found the flag set,
\* and then the waker is in the list or an unlock has popped it since; a
\* second try_lock that finds the flag false (a release having stored it
\* since the first one failed) claims the Mutex.
C16_RegisterBeforeRetry ==
  [][\A c \in Cores :
       /\ (pc[c] = "poll" /\ pc'[c] # pc[c]) =>
            IF state THEN pc'[c] = "register" /\ wakers' = wakers
                     ELSE pc'[c] = "crit" /\ mguard'[c]
       /\ (pc[c] = "register_push" /\ pc'[c] # pc[c]) =>
            wakers' = Append(wakers, c) /\ Head(stack'[c]) = "poll_retry"
       /\ (pc[c] = "poll_retry" /\ pc'[c] # pc[c]) =>
            IF state THEN pc'[c] = "pending" /\ ~mguard'[c]
                     ELSE pc'[c] = "crit" /\ mguard'[c] /\ state'
       /\ (pc'[c] = "pending" /\ pc[c] # "pending") =>
            /\ pc[c] = "poll_retry" /\ state
            /\ c \in Registered \/ woken[c] \/ \E d \in Cores : waker[d] = c]_vars

\* a task holds the Mutex from the second try_lock of its first poll (its
\* waker is in the list), the holder having released in between, and that
\* task has registered behind it and got Pending
C16_Witness ==
  \E c, d \in Cores :
    /\ pc[c] = "crit" /\ iter[c] = 0 /\ mguard[c]
    /\ pc[d] = "pending"
    /\ wakers = <<c, d>>

\* C17: unlock hands the Mutex to nobody: its first step leaves the flag
\* false and no guard in existence, its pop and its wake change neither the
\* flag nor a guard, and the flag is set and a guard made only by a task that
\* itself finds the flag false in a try_lock. (That a task which never
\* registered can claim before the woken task, which then registers and gets
\* Pending again, is the reachability of C17_Witness.)
C17_NoHandOff ==
  [][/\ \A c \in Cores :
          /\ (pc[c] = "unlock" /\ pc'[c] # pc[c]) =>
               ~state' /\ \A d \in Cores : ~mguard'[d]
          /\ (pc[c] \in {"unlock_pop", "unlock_wake"} /\ pc'[c] # pc[c]) =>
               state' = state /\ mguard' = mguard
          /\ (mguard'[c] /\ ~mguard[c]) =>
               /\ ~state /\ state'
               /\ pc[c] \in {"task", "poll", "poll_retry"} /\ pc'[c] = "crit"
     /\ (state' /\ ~state) => \E c \in Cores : mguard'[c] /\ ~mguard[c]]_vars

\* task d, never polled Ready, has got Pending, was woken by the only unlock
\* so far (that of task c, which popped d's waker, the list holding no waker
\* of c) and has got Pending a second time, because c, which never
\* registered, claimed the Mutex again before d was polled
C17_Witness ==
  \E c, d \in Cores :
    /\ c # d
    /\ pc[d] = "pending" /\ npend[d] = 2 /\ ~woken[d] /\ iter[d] = 0
    /\ mguard[c] /\ pc[c] = "crit" /\ iter[c] = 1
    /\ wakers = <<d>>

\* the SpinLock guards that a core holds
Held(c) == {l \in SpinLocks : guards[c][l] # "none"}

\* C18: whenever a core is between two SpinLock operations (lock, try_lock,
\* guard drops, in any nesting over the locks "x" and "y"), its noff is the
\* number of SpinLock guards it holds; and no core panics, so no guard drop
\* reaches pop_off with noff < 1.
C18_DepthEqualsGuards ==
  \A c \in Cores :
    /\ pc[c] = "idle" => cpus[c].noff = Cardinality(Held(c))
    /\ pc[c] # "panicked"

\* the tasks that are suspended: the last poll returned Pending and no wake
\* has been issued since
Suspended == {c \in Cores : pc[c] = "pending" /\ ~woken[c]}

\* C19 (as stated): every suspended task has a waker of its own in the list.
C19_SuspendedIsListed ==
  \A c \in Suspended : c \in Registered

\* C19 (amended): every suspended task has a waker of its own in the list or
\* in the hands of an unlock that has popped it and not yet called wake; a
\* waker leaves the list only as the head popped by an unlock, and an unlock
\* that has popped a waker goes on, without a panic, to wake that task.
C19_SuspendedIsListedOrPopped ==
  /\ [](\A c \in Suspended : c \in Registered \/ \E d \in Cores : waker[d] = c)
  /\ [][/\ Len(wakers') < Len(wakers) =>
            \E u \in Cores : /\ pc[u] = "unlock_pop"
                             /\ wakers' = Tail(wakers)
                             /\ waker'[u] = Head(wakers)
        /\ \A c \in Cores :
             waker[c] # 0 =>
               /\ pc'[c] # "panicked"
               /\ waker'[c] # waker[c] => pc[c] = "unlock_wake" /\ woken'[waker[c]]]_vars

\* a suspended task whose only waker has been popped by an unlock that has
\* not called wake yet
C19_Witness ==
  \E c \in Suspended : c \notin Registered /\ \E d \in Cores : waker[d] = c

\* C20: a core holds the guard of the wakers lock only from the return of
\* lock() in register or unlock to the drop that follows the one push_back or
\* pop_front, so not when wake is called, nor when poll returns, nor in the
\* critical section; and the list changes only in a step of a core that
\* holds that guard, which is the step before the guard's drop.
C20_WakersLockScope ==
  /\ [](\A c \in Cores :
          /\ guards[c]["wakers"] # "none" =>
               /\ pc[c] \in {"register_push", "unlock_pop", "guard_drop"}
               /\ locked["wakers"]
          /\ pc[c] \in {"unlock_wake", "pending", "crit", "task"} =>
               guards[c]["wakers"] = "none" /\ stack[c] = <<>>)
  /\ [][/\ wakers' # wakers =>
            \E u \in Cores :
              /\ guards[u]["wakers"] = "lock"
              /\ pc[u] \in {"register_push", "unlock_pop"}
              /\ pc'[u] = "guard_drop" /\ cur'[u] = "wakers"
        /\ \A c \in Cores :
             (pc[c] \in {"register_push", "unlock_pop"} /\ pc'[c] # pc[c]) =>
               pc'[c] = "guard_drop" /\ cur'[c] = "wakers"]_vars

\* an unlock is about to wake the task it popped, its guard of the wakers
\* lock dropped and its interrupts restored, while the other core holds the
\* wakers lock
C20_Witness ==
  \E c, d \in Cores :
    /\ pc[c] = "unlock_wake" /\ waker[c] # 0
    /\ guards[c]["wakers"] = "none" /\ cpus[c].noff = 0
    /\ guards[d]["wakers"] = "lock"

====
